---- MODULE Spec2Model ----
(***************************************************************************)
(* Model of the IoT state skill (private_assistant_iot_state_skill):       *)
(* parameter extraction, the latest-state read against the time-series     *)
(* store, answer composition and the process_request pipeline.             *)
(*                                                                         *)
(* Strings are sequences of atoms: an atom is a word, a punctuation mark   *)
(* or one whitespace character, so that lower(), split() and replace()     *)
(* are modelled by what they do to the text.                               *)
(***************************************************************************)
EXTENDS Integers, Sequences, FiniteSets, TLC

VARIABLES store, now, action_to_template, supported_intents, prepared, req, outbox, call

vars == <<store, now, action_to_template, supported_intents, prepared, req, outbox, call>>

(***************************************************************************)
(* Bounds                                                                  *)
(***************************************************************************)
MaxTextLen == 3
MaxObs == 2
NumReq == 2
MaxNow == 4
MaxIngest == 1
MaxStates == 2

(***************************************************************************)
(* Enumerations (iot_state_skill.py 22-51)                                 *)
(***************************************************************************)
DeviceType == [WINDOW |-> "window_sensor"]

Action == {"STATE_QUERY"}

StateFilter == {"ALL", "OPEN", "CLOSED"}

TwoDays == 2

NoValue == "NoValue"

RangeOf(s) == {s[i] : i \in 1..Len(s)}

(***************************************************************************)
(* Text primitives                                                         *)
(***************************************************************************)
Whitespace == {" "}

\* str.lower() on one atom: upper-case spellings map to their lower-case one
LowerAtom(a) ==
    CASE a = "Open" -> "open"
      [] a = "Closed" -> "closed"
      [] a = "Windows" -> "windows"
      [] a = "True" -> "true"
      [] a = "False" -> "false"
      [] OTHER -> a

Lower(s) == [i \in 1..Len(s) |-> LowerAtom(s[i])]

\* str.split(): maximal runs of non-whitespace atoms, in order
RECURSIVE SplitFrom(_, _, _)
SplitFrom(s, i, cur) ==
    IF i > Len(s)
    THEN IF cur = <<>> THEN <<>> ELSE <<cur>>
    ELSE IF s[i] \in Whitespace
         THEN IF cur = <<>>
              THEN SplitFrom(s, i + 1, <<>>)
              ELSE <<cur>> \o SplitFrom(s, i + 1, <<>>)
         ELSE SplitFrom(s, i + 1, Append(cur, s[i]))

\* variant: punctuation is stripped before the text is split
SplitStripPunctuation(s) == SplitFrom(SelectSeq(s, LAMBDA a : a # "?"), 1, <<>>)

Split(s) == SplitFrom(s, 1, <<>>)

\* variant: spaces are dropped instead of replaced
ReplaceSpaceRemoved(room) == SelectSeq(room, LAMBDA a : a # " ")

\* room.replace(" ", "_")
ReplaceSpace(room) == [i \in 1..Len(room) |-> IF room[i] = " " THEN "_" ELSE room[i]]

(***************************************************************************)
(* IoTStateSkill.__init__                                                  *)
(***************************************************************************)
device_type_map == [k \in {<<"window">>, <<"windows">>} |-> "WINDOW"]

NoTemplate == "NoTemplate"

(***************************************************************************)
(* _extract_state_filter_from_text                                         *)
(***************************************************************************)
\* variant: "closed" is looked for first
ExtractStateFilterClosedFirst(raw_text) ==
    LET text_words == RangeOf(Split(Lower(raw_text)))
    IN  IF <<"closed">> \in text_words THEN "CLOSED"
        ELSE IF <<"open">> \in text_words THEN "OPEN"
        ELSE "ALL"

ExtractStateFilterFromText(raw_text) ==
    LET text_words == RangeOf(Split(Lower(raw_text)))
    IN  IF <<"open">> \in text_words THEN "OPEN"
        ELSE IF <<"closed">> \in text_words THEN "CLOSED"
        ELSE "ALL"

(***************************************************************************)
(* get_parameters                                                          *)
(***************************************************************************)
\* first element of seq s satisfying membership in the keyword map, mapped
RECURSIVE FirstMapped(_, _)
FirstMapped(s, i) ==
    IF i > Len(s) THEN NoValue
    ELSE IF s[i] \in DOMAIN device_type_map THEN device_type_map[s[i]]
    ELSE FirstMapped(s, i + 1)

EntityDeviceType(device_entities) ==
    IF device_entities # <<>> THEN FirstMapped(device_entities, 1) ELSE NoValue

TextDeviceType(raw_text) == FirstMapped(Split(Lower(raw_text)), 1)

\* variant: the text is consulted only when the request carries no device entity
ResolveDeviceTypeEntitiesOnly(ireq) ==
    IF ireq.device_entities # <<>>
    THEN EntityDeviceType(ireq.device_entities)
    ELSE TextDeviceType(ireq.raw_text)

\* variant: the text is never consulted
ResolveDeviceTypeNoTextFallback(ireq) == EntityDeviceType(ireq.device_entities)

ResolveDeviceType(ireq) ==
    LET fromEntities == EntityDeviceType(ireq.device_entities)
    IN  IF fromEntities = NoValue THEN TextDeviceType(ireq.raw_text) ELSE fromEntities

\* variant: the ambient room is always searched too
ResolveRoomsWithAmbient(ireq) ==
    IF ireq.room_entities # <<>>
    THEN Append(ireq.room_entities, ireq.client_request.room)
    ELSE <<ireq.client_request.room>>

\* variant: without room entity no room is given
ResolveRoomsNoDefault(ireq) ==
    IF ireq.room_entities # <<>> THEN ireq.room_entities ELSE <<>>

ResolveRooms(ireq) ==
    IF ireq.room_entities # <<>> THEN ireq.room_entities ELSE <<ireq.client_request.room>>

NoDeviceTypeError == "ValueError: No valid device type found in request"

\* variant: a request without a device keyword is taken to be about windows
GetParametersDefaultWindow(ireq) ==
    [ok |-> TRUE,
     params |-> [action |-> "STATE_QUERY",
                 device_type |-> "WINDOW",
                 rooms |-> ResolveRooms(ireq),
                 state_filter |-> ExtractStateFilterFromText(ireq.raw_text),
                 states |-> <<>>]]

\* variant: the state words count only for a direct state query
GetParametersFilterByIntent(ireq) ==
    LET device_type == ResolveDeviceType(ireq)
    IN  IF device_type = NoValue
        THEN [ok |-> FALSE, error |-> NoDeviceTypeError]
        ELSE [ok |-> TRUE,
              params |-> [action |-> "STATE_QUERY",
                          device_type |-> device_type,
                          rooms |-> ResolveRooms(ireq),
                          state_filter |-> IF ireq.intent_type = "QUERY_STATUS"
                                           THEN ExtractStateFilterFromText(ireq.raw_text)
                                           ELSE "ALL",
                          states |-> <<>>]]

\* Result of get_parameters: [ok |-> TRUE, params |-> ...] or [ok |-> FALSE, error |-> ...]
GetParameters(ireq) ==
    LET device_type == ResolveDeviceType(ireq)
    IN  IF device_type = NoValue
        THEN [ok |-> FALSE, error |-> NoDeviceTypeError]
        ELSE [ok |-> TRUE,
              params |-> [action |-> "STATE_QUERY",
                          device_type |-> device_type,
                          rooms |-> ResolveRooms(ireq),
                          state_filter |-> ExtractStateFilterFromText(ireq.raw_text),
                          states |-> <<>>]]

(***************************************************************************)
(* The time-series store (models.IoTData rows) as get_device_states sees   *)
(* it.  contact is the JSON value of payload["contact"]: "true", "false",  *)
(* or "absent" when the payload has no such key.                           *)
(***************************************************************************)
\* variant: a missing contact compares as false, as payload.get does
AsTextAbsentFalse(contact) == IF contact = "absent" THEN "false" ELSE contact

\* payload["contact"].astext : the JSON value as text, SQL NULL when missing
AsText(contact) == IF contact = "absent" THEN "NULL" ELSE contact

\* str(b) for a Python bool
StrBool(b) == IF b THEN "True" ELSE "False"

\* payload.get("contact", False), then the truth test of line 295
PayloadGetContact(contact) == IF contact = "absent" THEN FALSE ELSE contact = "true"

\* lines 265-266
RoomsWoWhitespace(params) == [i \in 1..Len(params.rooms) |-> ReplaceSpace(params.rooms[i])]

\* .where(device_type == ...)  line 277
TypeMatches(o, params) == o.device_type = DeviceType[params.device_type]

\* variant: no recency condition
InWindowAlways(o, t) == TRUE

\* .where(time > datetime.now() - timedelta(days=2))  line 278
InWindow(o, t) == o.time > t - TwoDays

\* .where(col(room).in_(rooms_wo_whitespace))  line 279
RoomMatches(o, params) == o.room \in RangeOf(RoomsWoWhitespace(params))

\* variant: the latest observation of a device is picked before the room
\* is looked at, so rows older than one stored under another room drop out
SubqueryRoomAfterLatest(st, params, t) ==
    {o \in st : /\ TypeMatches(o, params) /\ InWindow(o, t) /\ RoomMatches(o, params)
                /\ \A p \in st : (/\ p.device_id = o.device_id /\ p.time > o.time
                                    /\ TypeMatches(p, params) /\ InWindow(p, t))
                                   => RoomMatches(p, params)}

\* rows of the inner subquery (lines 270-280)
Subquery(st, params, t) ==
    {o \in st : TypeMatches(o, params) /\ InWindow(o, t) /\ RoomMatches(o, params)}

\* rows that row_number() OVER (PARTITION BY device_id ORDER BY time DESC)
\* may number 1: those of maximal time in their partition
MayBeFirst(rows, o) ==
    o \in rows /\ \A p \in rows : p.device_id = o.device_id => p.time <= o.time

\* variant: every row of maximal time is kept (rank() instead of row_number())
RowNumberOneAllTies(rows) == {{o \in rows : MayBeFirst(rows, o)}}

\* every way the store may assign row_num = 1: exactly one row per partition,
\* of maximal time; rows tied on time are ordered arbitrarily by the store
RowNumberOne(rows) ==
    {S \in SUBSET rows :
        /\ \A o \in S : MayBeFirst(rows, o)
        /\ \A o \in rows : Cardinality({p \in S : p.device_id = o.device_id}) = 1}

\* lines 284-286: the payload predicate of the outer query
StateMatches(o, params) ==
    IF params.state_filter # "ALL"
    THEN LET is_closed == params.state_filter # "OPEN"
         IN  AsText(o.contact) = Lower(<<StrBool(is_closed)>>)[1]
    ELSE TRUE

\* lines 283-287: outer query over one numbering of the subquery
OuterQuery(first, params) == {o \in first : StateMatches(o, params)}

\* result.all(): the selected rows in some order (the query has no ORDER BY)
Orderings(S) ==
    {s \in [1..Cardinality(S) -> S] : \A i, j \in 1..Cardinality(S) : s[i] = s[j] => i = j}

\* variant: the payload predicate is applied inside the numbered subquery
QueryResultsFilterFirst(st, params, t) ==
    UNION {Orderings(first) :
             first \in RowNumberOne({o \in Subquery(st, params, t) : StateMatches(o, params)})}

\* every row sequence the store may return for the query
QueryResults(st, params, t) ==
    UNION {Orderings(OuterQuery(first, params)) : first \in RowNumberOne(Subquery(st, params, t))}

\* variant: the contact flag read the wrong way round
StateOfInverted(o) == IF PayloadGetContact(o.contact) THEN "open" ELSE "closed"

\* lines 292-296: one (device_name, room, state) tuple per returned row
StateOf(o) == IF PayloadGetContact(o.contact) THEN "closed" ELSE "open"

\* variant: the device_id column is selected where the room belongs
ToStatesWrongColumn(rows) ==
    [i \in 1..Len(rows) |-> <<rows[i].device_name, <<rows[i].device_id>>, StateOf(rows[i])>>]

ToStates(rows) == [i \in 1..Len(rows) |-> <<rows[i].device_name, rows[i].room, StateOf(rows[i])>>]

(***************************************************************************)
(* get_answer and the state_query.j2 template                              *)
(***************************************************************************)
Apology == <<"Sorry, I couldn't process your request">>

\* the template shows a stored room with its underscores turned into spaces
DisplayRoom(room) == [i \in 1..Len(room) |-> IF room[i] = "_" THEN " " ELSE room[i]]

\* rooms joined by ", "
RECURSIVE JoinRooms(_)
JoinRooms(rooms) ==
    IF Len(rooms) = 0 THEN <<>>
    ELSE IF Len(rooms) = 1 THEN rooms[1]
    ELSE rooms[1] \o <<", ">> \o JoinRooms(Tail(rooms))

\* one line per result, or the "No database entries" sentence
Render(template, params) ==
    IF Len(params.states) > 0
    THEN [i \in 1..Len(params.states) |->
            <<"The ">> \o <<params.states[i][1]>> \o <<" in room ">>
              \o DisplayRoom(params.states[i][2]) \o <<" is ">>
              \o <<params.states[i][3]>> \o <<".">>]
    ELSE IF Len(params.rooms) > 0
         THEN << <<"No database entries were found for ">> \o JoinRooms(params.rooms) \o <<".">> >>
         ELSE << <<"No database entries were found.">> >>

\* line 313: self.action_to_template.get(params.action)
TemplateFor(a2t, params) ==
    IF params.action \in DOMAIN a2t THEN a2t[params.action] ELSE NoTemplate

\* variant: no fallback string when the template is missing
GetAnswerNoFallback(a2t, params) ==
    LET template == TemplateFor(a2t, params)
    IN  IF template # NoTemplate THEN Render(template, params) ELSE <<>>

\* variant: the test for the template is the wrong way round
GetAnswerInverted(a2t, params) ==
    LET template == TemplateFor(a2t, params)
    IN  IF template = NoTemplate THEN Render(template, params) ELSE <<Apology>>

\* variant: the apology is returned whether or not a template is registered
GetAnswerAlwaysApology(a2t, params) == <<Apology>>

\* lines 313-319
GetAnswer(a2t, params) ==
    LET template == TemplateFor(a2t, params)
    IN  IF template # NoTemplate THEN Render(template, params) ELSE <<Apology>>

\* the template name _load_templates asks for: f"{action.name.lower()}.j2"
TemplateName(a) == IF a = "STATE_QUERY" THEN "state_query.j2" ELSE "unknown.j2"

\* variant: the message is handed over twice
SendResponseTwice(box, response, client_request) ==
    Append(Append(box, [text |-> response, client_request |-> client_request]),
           [text |-> response, client_request |-> client_request])

\* send_response(response, client_request): one message handed to the outbound channel
SendResponse(box, response, client_request) ==
    Append(box, [text |-> response, client_request |-> client_request])

(***************************************************************************)
(* Input domains                                                           *)
(***************************************************************************)
TextAtoms == {"open", "Open", "closed", "windows", "Windows", "?", "show", " "}

SeqsUpTo(S, n) == UNION {[1..k -> S] : k \in 0..n}

RawTexts == SeqsUpTo(TextAtoms, MaxTextLen)

DeviceEntityLists ==
    { <<>>, << <<"windows">> >>, << <<"door">> >>, << <<"door">>, <<"window">> >>,
      << <<"Windows">> >> }

LivingRoom == <<"living", " ", "room">>

RoomEntityLists == { <<>>, << <<"bedroom">> >>, << LivingRoom, <<"bedroom">> >> }

AmbientRooms == { <<"kitchen">>, <<>> }

IntentTypes == {"QUERY_STATUS", "SYSTEM_HELP"}

\* IntentRequest: classified_intent (raw_text, entities, intent_type) and client_request
MkRequest(id, text, devs, rooms, ambient, intent) ==
    [raw_text |-> text, device_entities |-> devs, room_entities |-> rooms,
     intent_type |-> intent,
     client_request |-> [id |-> id, room |-> ambient, output_topic |-> <<"assistant/">> \o ambient]]

Requests ==
    {MkRequest(0, t, d, r, a, i) :
        t \in RawTexts, d \in DeviceEntityLists, r \in RoomEntityLists,
        a \in AmbientRooms, i \in IntentTypes}

DeviceIds == {"sensor_1", "sensor_2"}

DeviceNameOf(d) == IF d = "sensor_1" THEN "left window" ELSE "right window"

StoredRooms == { <<"living", "_", "room">>, <<"bedroom">> }

Times == 0..MaxNow

Contacts == {"true", "false", "absent"}

Observations ==
    [device_id : DeviceIds, device_type : {"window_sensor"}, room : StoredRooms,
     time : Times, contact : Contacts]
    \cup
    [device_id : {"sensor_2"}, device_type : {"door_sensor"}, room : {<<"bedroom">>},
     time : {MaxNow}, contact : {"false"}]

MkRow(o) ==
    [device_id |-> o.device_id, device_name |-> DeviceNameOf(o.device_id),
     device_type |-> o.device_type, room |-> o.room, time |-> o.time, contact |-> o.contact]

Stores == {{MkRow(f[i]) : i \in 1..MaxObs} : f \in [1..MaxObs -> Observations]}

RoomLists ==
    { <<>>, << <<"bedroom">> >>, << LivingRoom >>, << LivingRoom, <<"bedroom">> >>,
      << <<"kitchen">> >>, << <<"living", "_", "room">> >> }

ParamsSet ==
    [action : Action, device_type : DOMAIN DeviceType, rooms : RoomLists,
     state_filter : StateFilter, states : {<<>>}]

(***************************************************************************)
(* State after construction (__init__, lines 117-132)                      *)
(***************************************************************************)
NoCall == [op |-> "none", arg |-> NoValue, status |-> "none", rows |-> <<>>, ret |-> NoValue]

\* process_request has no parameters yet
NoParams ==
    [action |-> "STATE_QUERY", device_type |-> NoValue, rooms |-> <<>>,
     state_filter |-> "ALL", states |-> <<>>]

IdleRequest ==
    [pc |-> "idle", ireq |-> NoValue, params |-> NoParams, since |-> 0, reads |-> 0,
     template |-> NoValue, response |-> <<>>, error |-> NoValue, trace |-> <<>>]

ReqIds == 1..NumReq

\* self.supported_intents as __init__ leaves it (lines 123-125): intent type
\* to confidence, the confidence in tenths
InitialSupportedIntents == [DATA_QUERY |-> 8]

InitSkill ==
    /\ action_to_template = <<>>
    /\ supported_intents = InitialSupportedIntents
    /\ prepared = FALSE
    /\ req = [r \in ReqIds |-> IdleRequest]
    /\ outbox = <<>>

(***************************************************************************)
(* Direct calls of get_parameters and get_device_states                    *)
(***************************************************************************)
CallGetParameters ==
    /\ call.op = "get_parameters" /\ call.status = "pending"
    /\ LET res == GetParameters(call.arg)
       IN  call' = IF res.ok
                   THEN [call EXCEPT !.status = "returned", !.ret = res.params]
                   ELSE [call EXCEPT !.status = "raised", !.ret = res.error]
    /\ UNCHANGED <<supported_intents, store, now, action_to_template, prepared, req, outbox>>

CallGetDeviceStates ==
    /\ call.op = "get_device_states" /\ call.status = "pending"
    /\ \E rows \in QueryResults(store, call.arg, now) :
          call' = [call EXCEPT !.status = "returned", !.rows = rows, !.ret = ToStates(rows)]
    /\ UNCHANGED <<supported_intents, store, now, action_to_template, prepared, req, outbox>>

StoreError == "StateReadFailure"

CallGetDeviceStatesRaises ==
    /\ call.op = "get_device_states" /\ call.status = "pending"
    /\ call' = [call EXCEPT !.status = "raised", !.ret = StoreError]
    /\ UNCHANGED <<supported_intents, store, now, action_to_template, prepared, req, outbox>>

InitExtract ==
    /\ InitSkill
    /\ store = {}
    /\ now = MaxNow
    /\ \E ireq \in Requests :
          call = [op |-> "get_parameters", arg |-> ireq, status |-> "pending",
                  rows |-> <<>>, ret |-> NoValue]

NextExtract == CallGetParameters

SpecExtract == InitExtract /\ [][NextExtract]_vars

InitRead ==
    /\ InitSkill
    /\ store \in Stores
    /\ now = MaxNow
    /\ \E params \in ParamsSet :
          call = [op |-> "get_device_states", arg |-> params, status |-> "pending",
                  rows |-> <<>>, ret |-> NoValue]

NextRead == CallGetDeviceStates \/ CallGetDeviceStatesRaises

SpecRead == InitRead /\ [][NextRead]_vars

\* _load_templates: every action's template is looked up; the first lookup
\* that fails ends the loop and is logged
LoadTemplates(a2t, found) ==
    IF found THEN [a \in Action |-> TemplateName(a)] ELSE a2t

\* result tuples handed to get_answer: (device_name, room, state)
StateTuples ==
    {<<n, r, st>> : n \in {"left window", "right window"}, r \in StoredRooms,
                    st \in {"open", "closed"}}

AnswerParamsSet ==
    [action : Action, device_type : DOMAIN DeviceType, rooms : RoomLists,
     state_filter : StateFilter, states : SeqsUpTo(StateTuples, MaxStates)]

CallGetAnswer ==
    /\ call.op = "get_answer" /\ call.status = "pending"
    /\ call' = [call EXCEPT !.status = "returned",
                            !.ret = GetAnswer(action_to_template, call.arg)]
    /\ UNCHANGED <<supported_intents, store, now, action_to_template, prepared, req, outbox>>

\* the skill as constructed, or after skill_preparations found or missed the template
InitAnswer ==
    /\ req = [r \in ReqIds |-> IdleRequest]
    /\ supported_intents = InitialSupportedIntents
    /\ outbox = <<>>
    /\ store = {}
    /\ now = MaxNow
    /\ prepared \in BOOLEAN
    /\ \E found \in BOOLEAN :
          action_to_template = IF prepared THEN LoadTemplates(<<>>, found) ELSE <<>>
    /\ \E params \in AnswerParamsSet :
          call = [op |-> "get_answer", arg |-> params, status |-> "pending",
                  rows |-> <<>>, ret |-> NoValue]

NextAnswer == CallGetAnswer

SpecAnswer == InitAnswer /\ [][NextAnswer]_vars

(***************************************************************************)
(* The running skill: skill_preparations, process_request and the          *)
(* environment (clock, sensor readings arriving in the store)              *)
(***************************************************************************)
PipeTexts == { <<"Open", " ", "windows">>, <<"show">> }

PipeEntities ==
    { [device |-> <<>>, room |-> <<>>],
      [device |-> << <<"windows">> >>, room |-> << LivingRoom >>] }

PipeRequests(r) ==
    {MkRequest(r, t, e.device, e.room, <<"bedroom">>, "QUERY_STATUS") :
        t \in PipeTexts, e \in PipeEntities}
    \cup {MkRequest(r, <<"show">>, e.device, e.room, <<"bedroom">>, "SYSTEM_HELP") :
             e \in PipeEntities}

FirstNow == TwoDays + 1

\* a reading of sensor_1 taken at time t
Reading(t, contact) ==
    MkRow([device_id |-> "sensor_1", device_type |-> "window_sensor",
           room |-> <<"living", "_", "room">>, time |-> t, contact |-> contact])

Init ==
    /\ InitSkill
    /\ store = {}
    /\ now = FirstNow
    /\ call = NoCall

\* time passes
Tick ==
    /\ now < MaxNow
    /\ now' = now + 1
    /\ UNCHANGED <<supported_intents, store, action_to_template, prepared, req, outbox, call>>

\* the ingest pipeline stores a new sensor reading
Ingest ==
    /\ Cardinality(store) < MaxIngest
    /\ \E c \in {"true", "false"} : store' = store \cup {Reading(now, c)}
    /\ UNCHANGED <<supported_intents, now, action_to_template, prepared, req, outbox, call>>

\* variant: while no template is registered the load is tried again
SkillPreparationsReload ==
    /\ ~prepared \/ action_to_template = <<>>
    /\ prepared' = TRUE
    /\ \E found \in BOOLEAN : action_to_template' = LoadTemplates(action_to_template, found)
    /\ UNCHANGED <<supported_intents, store, now, req, outbox, call>>

SkillPreparations ==
    /\ ~prepared
    /\ prepared' = TRUE
    /\ \E found \in BOOLEAN : action_to_template' = LoadTemplates(action_to_template, found)
    /\ UNCHANGED <<supported_intents, store, now, req, outbox, call>>

\* variant: only a direct state query is processed, any other intent type
\* returns at once
ProcessRequestStatusOnly(r) ==
    /\ req[r].pc = "idle"
    /\ \E ireq \in PipeRequests(r) :
          LET res == GetParameters(ireq)
          IN  req' = [req EXCEPT ![r] =
                        IF ireq.intent_type # "QUERY_STATUS"
                        THEN [@ EXCEPT !.pc = "done", !.ireq = ireq]
                        ELSE IF res.ok
                        THEN [@ EXCEPT !.pc = "await_exec", !.ireq = ireq,
                                       !.params = res.params, !.since = now,
                                       !.reads = @ + 1,
                                       !.trace = <<"get_parameters", "session.exec">>]
                        ELSE [@ EXCEPT !.pc = "raised", !.ireq = ireq,
                                       !.error = res.error,
                                       !.trace = <<"get_parameters">>]]
    /\ UNCHANGED <<supported_intents, store, now, action_to_template, prepared, outbox, call>>

\* process_request up to its first suspension: get_parameters (line 333), then
\* get_device_states builds the query and awaits session.exec (line 288)
ProcessRequest(r) ==
    /\ req[r].pc = "idle"
    /\ \E ireq \in PipeRequests(r) :
          LET res == GetParameters(ireq)
          IN  req' = [req EXCEPT ![r] =
                        IF res.ok
                        THEN [@ EXCEPT !.pc = "await_exec", !.ireq = ireq,
                                       !.params = res.params, !.since = now,
                                       !.reads = @ + 1,
                                       !.trace = <<"get_parameters", "session.exec">>]
                        ELSE [@ EXCEPT !.pc = "raised", !.ireq = ireq,
                                       !.error = res.error,
                                       !.trace = <<"get_parameters">>]]
    /\ UNCHANGED <<supported_intents, store, now, action_to_template, prepared, outbox, call>>

\* variant: an empty read result completes the request without a message
ExecReturnsSilentOnEmpty(r) ==
    /\ req[r].pc = "await_exec"
    /\ \E rows \in QueryResults(store, req[r].params, req[r].since) :
          LET params == [req[r].params EXCEPT !.states = ToStates(rows)]
              response == GetAnswer(action_to_template, params)
          IN  /\ outbox' = IF rows = <<>> THEN outbox
                            ELSE SendResponse(outbox, response, req[r].ireq.client_request)
              /\ req' = [req EXCEPT ![r] =
                            [@ EXCEPT !.pc = "done", !.params = params,
                                      !.template = TemplateFor(action_to_template, params),
                                      !.response = response,
                                      !.trace = @ \o <<"get_device_states", "get_answer",
                                                       "send_response">>]]
    /\ UNCHANGED <<supported_intents, store, now, action_to_template, prepared, call>>

\* variant: the parameters live on the skill object, so the step that
\* answers request r works on those of whichever request is in flight
ExecReturnsSharedParams(r) ==
    /\ req[r].pc = "await_exec"
    /\ \E q \in {k \in ReqIds : req[k].pc = "await_exec"} :
        \E rows \in QueryResults(store, req[q].params, req[q].since) :
          LET params == [req[q].params EXCEPT !.states = ToStates(rows)]
              response == GetAnswer(action_to_template, params)
          IN  /\ outbox' = SendResponse(outbox, response, req[r].ireq.client_request)
              /\ req' = [req EXCEPT ![r] =
                            [@ EXCEPT !.pc = "done", !.params = params,
                                      !.template = TemplateFor(action_to_template, params),
                                      !.response = response,
                                      !.trace = @ \o <<"get_device_states", "get_answer",
                                                       "send_response">>]]
    /\ UNCHANGED <<supported_intents, store, now, action_to_template, prepared, call>>

\* variant: the read writes the storage form of the room names back into
\* the parameters
ExecReturnsNormalizedRooms(r) ==
    /\ req[r].pc = "await_exec"
    /\ \E rows \in QueryResults(store, req[r].params, req[r].since) :
          LET params == [req[r].params EXCEPT !.states = ToStates(rows),
                                              !.rooms = RoomsWoWhitespace(req[r].params)]
              response == GetAnswer(action_to_template, params)
          IN  /\ outbox' = SendResponse(outbox, response, req[r].ireq.client_request)
              /\ req' = [req EXCEPT ![r] =
                            [@ EXCEPT !.pc = "done", !.params = params,
                                      !.template = TemplateFor(action_to_template, params),
                                      !.response = response,
                                      !.trace = @ \o <<"get_device_states", "get_answer",
                                                       "send_response">>]]
    /\ UNCHANGED <<supported_intents, store, now, action_to_template, prepared, call>>

\* variant: the results of a completed request with the same parameters are
\* reused instead of what the store answers
ExecReturnsCached(r) ==
    /\ req[r].pc = "await_exec"
    /\ \E rows \in QueryResults(store, req[r].params, req[r].since) :
          LET same == {q \in ReqIds : /\ req[q].pc = "done"
                                      /\ [req[q].params EXCEPT !.states = <<>>] = req[r].params}
              params == [req[r].params EXCEPT !.states =
                            IF same = {} THEN ToStates(rows)
                            ELSE req[CHOOSE q \in same : TRUE].params.states]
              response == GetAnswer(action_to_template, params)
          IN  /\ outbox' = SendResponse(outbox, response, req[r].ireq.client_request)
              /\ req' = [req EXCEPT ![r] =
                            [@ EXCEPT !.pc = "done", !.params = params,
                                      !.template = TemplateFor(action_to_template, params),
                                      !.response = response,
                                      !.trace = @ \o <<"get_device_states", "get_answer",
                                                       "send_response">>]]
    /\ UNCHANGED <<supported_intents, store, now, action_to_template, prepared, call>>

\* the store answers: lines 288-298, then 334-336; send_response hands the
\* message to the outbound channel and process_request returns
ExecReturns(r) ==
    /\ req[r].pc = "await_exec"
    /\ \E rows \in QueryResults(store, req[r].params, req[r].since) :
          LET params == [req[r].params EXCEPT !.states = ToStates(rows)]
              response == GetAnswer(action_to_template, params)
          IN  /\ outbox' = SendResponse(outbox, response, req[r].ireq.client_request)
              /\ req' = [req EXCEPT ![r] =
                            [@ EXCEPT !.pc = "done", !.params = params,
                                      !.template = TemplateFor(action_to_template, params),
                                      !.response = response,
                                      !.trace = @ \o <<"get_device_states", "get_answer",
                                                       "send_response">>]]
    /\ UNCHANGED <<supported_intents, store, now, action_to_template, prepared, call>>

\* variant: a failed store call is issued once more
ExecRaisesRetry(r) ==
    /\ req[r].pc = "await_exec"
    /\ req' = [req EXCEPT ![r] =
                  IF @.reads < 2
                  THEN [@ EXCEPT !.reads = @ + 1, !.error = StoreError]
                  ELSE [@ EXCEPT !.pc = "raised", !.error = StoreError]]
    /\ UNCHANGED <<supported_intents, store, now, action_to_template, prepared, outbox, call>>

\* the store call fails: the exception leaves get_device_states and process_request
ExecRaises(r) ==
    /\ req[r].pc = "await_exec"
    /\ req' = [req EXCEPT ![r] = [@ EXCEPT !.pc = "raised", !.error = StoreError]]
    /\ UNCHANGED <<supported_intents, store, now, action_to_template, prepared, outbox, call>>

Next ==
    \/ Tick
    \/ Ingest
    \/ SkillPreparations
    \/ \E r \in ReqIds : ProcessRequest(r)
    \/ \E r \in ReqIds : ExecReturns(r)
    \/ \E r \in ReqIds : ExecRaises(r)

Spec == Init /\ [][Next]_vars

(***************************************************************************)
(* Properties                                                              *)
(***************************************************************************)
\* positions of the outbound messages addressed to request r
SentFor(r) == {i \in 1..Len(outbox) : outbox[i].client_request.id = r}

FullTrace == <<"get_parameters", "session.exec", "get_device_states", "get_answer", "send_response">>

\* C1: a request whose extraction and read both succeeded has exactly one
\* outbound message, carrying the composed answer and that request's own
\* client request, sent after get_parameters, the read and get_answer ran in
\* that order; a request that has not completed them has none.
C1_ExactlyOneResponse ==
    \A r \in ReqIds :
        /\ req[r].pc = "done" =>
              /\ Cardinality(SentFor(r)) = 1
              /\ \A i \in SentFor(r) :
                    outbox[i] = [text |-> req[r].response,
                                 client_request |-> req[r].ireq.client_request]
              /\ req[r].response \in
                    {<<Apology>>, Render(TemplateName(req[r].params.action), req[r].params)}
              /\ req[r].trace = FullTrace
        /\ req[r].pc # "done" => SentFor(r) = {}

\* C1 witness: both requests were answered, the replies leaving in the
\* opposite order of the request ids
C1_Witness ==
    /\ \A r \in ReqIds : req[r].pc = "done"
    /\ Len(outbox) = NumReq
    /\ outbox[1].client_request.id = NumReq
    /\ Len(outbox[1].text[1]) > 1

Keywords == {<<"window">>, <<"windows">>}

\* the lower-cased whitespace-delimited tokens of a text: every maximal run
\* of non-whitespace atoms
TokensOf(text) ==
    {Lower(SubSeq(text, ij[1], ij[2])) : ij \in
        {ij \in (1..Len(text)) \X (1..Len(text)) :
            /\ ij[1] <= ij[2]
            /\ \A k \in ij[1]..ij[2] : text[k] # " "
            /\ (ij[1] = 1 \/ text[ij[1] - 1] = " ")
            /\ (ij[2] = Len(text) \/ text[ij[2] + 1] = " ")}}

\* no device entity and no token of the text names a device type
NoDeviceKeyword(ireq) ==
    /\ \A i \in 1..Len(ireq.device_entities) : ireq.device_entities[i] \notin Keywords
    /\ TokensOf(ireq.raw_text) \cap Keywords = {}

\* C2: get_parameters raises the no-device-type error exactly when neither a
\* device entity nor a lower-cased token of the text is "window"/"windows",
\* and otherwise returns parameters with device_type WINDOW.
C2_NoDeviceTypeExactly ==
    (call.op = "get_parameters" /\ call.status # "pending") =>
        IF NoDeviceKeyword(call.arg)
        THEN call.status = "raised" /\ call.ret = NoDeviceTypeError
        ELSE call.status = "returned" /\ call.ret.device_type = "WINDOW"

\* C2 witness: entities are present but none is a keyword, the text mentions
\* windows only with an attached question mark, and the call raised
C2_Witness ==
    /\ call.op = "get_parameters" /\ call.status = "raised"
    /\ call.arg.device_entities = << <<"door">> >>
    /\ call.arg.raw_text = <<"Windows", "?">>

\* C3: a store read is issued only with parameters that carry a device type;
\* a request without any device keyword ends with the ValueError raised out
\* of process_request, with no store read and no outbound message.
C3_NoReadWithoutDeviceType ==
    \A r \in ReqIds :
        /\ req[r].reads > 0 =>
              /\ req[r].params.device_type \in DOMAIN DeviceType
              /\ ~NoDeviceKeyword(req[r].ireq)
        /\ (req[r].pc # "idle" /\ NoDeviceKeyword(req[r].ireq)) =>
              /\ req[r].pc = "raised"
              /\ req[r].error = NoDeviceTypeError
              /\ req[r].reads = 0
              /\ SentFor(r) = {}

\* C3 witness: one request failed in extraction while another one was answered
C3_Witness ==
    /\ \E r \in ReqIds : req[r].pc = "raised" /\ req[r].error = NoDeviceTypeError
    /\ \E r \in ReqIds : req[r].pc = "done"

\* C4: a request whose store call failed ends with that failure raised out of
\* process_request, after exactly one read, and has no outbound message.
C4_ReadFailureNoRetryNoMessage ==
    \A r \in ReqIds :
        req[r].error = StoreError =>
            /\ req[r].pc = "raised"
            /\ req[r].reads = 1
            /\ SentFor(r) = {}
            /\ req[r].response = <<>>

\* C4 witness: a read failed while the outbox holds another request's answer
C4_Witness ==
    /\ \E r \in ReqIds : req[r].error = StoreError
    /\ Len(outbox) > 0

\* C5: a request composed while no template was registered for its action is
\* answered exactly once, with exactly the apology string.
C5_ApologyDelivered ==
    \A r \in ReqIds :
        (req[r].pc = "done" /\ req[r].template = NoTemplate) =>
            /\ req[r].response = <<Apology>>
            /\ Cardinality(SentFor(r)) = 1
            /\ \A i \in SentFor(r) : outbox[i].text = <<Apology>>

\* C5 witness: templates failed to load during skill_preparations and a
\* request was then answered
C5_Witness ==
    /\ prepared
    /\ \E r \in ReqIds : req[r].pc = "done" /\ req[r].template = NoTemplate

\* a direct call of get_device_states has returned
ReadReturned == call.op = "get_device_states" /\ call.status = "returned"

\* the requested room names in storage form
RequestedStorageRooms == {ReplaceSpace(call.arg.rooms[i]) : i \in 1..Len(call.arg.rooms)}

\* observations of the requested type, less than two days old at the call,
\* stored under one of the requested rooms
EligibleObs ==
    {o \in store : /\ o.device_type = "window_sensor"
                   /\ now - o.time < TwoDays
                   /\ o.room \in RequestedStorageRooms}

\* the eligible observations of device d that no eligible one of d is newer than
LatestOf(d) ==
    {o \in EligibleObs : o.device_id = d /\ \A p \in EligibleObs : p.device_id = d => p.time <= o.time}

ResultsOf(d) == {i \in 1..Len(call.rows) : call.rows[i].device_id = d}

\* C6: with state_filter ALL every device with an eligible observation (right
\* type, inside the window, stored under a requested room) has exactly one
\* result, built from one of its eligible observations of maximal time, also
\* when several tie; a device without eligible observation has none.
C6_LatestPerDevice ==
    (ReadReturned /\ call.arg.state_filter = "ALL") =>
        /\ Len(call.ret) = Len(call.rows)
        /\ \A d \in DeviceIds :
              IF LatestOf(d) # {}
              THEN /\ Cardinality(ResultsOf(d)) = 1
                   /\ \A i \in ResultsOf(d) :
                         /\ call.rows[i] \in LatestOf(d)
                         /\ call.ret[i][1] = call.rows[i].device_name
                         /\ call.ret[i][2] = call.rows[i].room
              ELSE ResultsOf(d) = {}

\* C6 witness: two eligible observations of one device tie on the time and
\* disagree on the contact; one result came back
C6_Witness ==
    /\ ReadReturned /\ call.arg.state_filter = "ALL"
    /\ \E d \in DeviceIds : Cardinality(LatestOf(d)) = 2
    /\ Len(call.ret) = 1

WantedContact == IF call.arg.state_filter = "OPEN" THEN "false" ELSE "true"

\* C7: with state_filter OPEN (CLOSED) a device is returned only on the
\* strength of a latest eligible observation with contact false (true), and
\* is returned whenever its latest eligible observations all have it; an
\* older observation in the window never decides.
C7_FilterAfterLatest ==
    (ReadReturned /\ call.arg.state_filter # "ALL") =>
        \A d \in DeviceIds :
            /\ ResultsOf(d) # {} =>
                  /\ Cardinality(ResultsOf(d)) = 1
                  /\ \A i \in ResultsOf(d) :
                        call.rows[i] \in LatestOf(d) /\ call.rows[i].contact = WantedContact
            /\ (LatestOf(d) # {} /\ \A o \in LatestOf(d) : o.contact = WantedContact)
                  => ResultsOf(d) # {}

\* C7 witness: an OPEN query; the device's newest eligible observation is
\* closed, an older one inside the window is open, and nothing is returned
C7_Witness ==
    /\ ReadReturned /\ call.arg.state_filter = "OPEN"
    /\ \E d \in DeviceIds :
          /\ \A o \in LatestOf(d) : o.contact = "true"
          /\ LatestOf(d) # {}
          /\ \E p \in EligibleObs : p.device_id = d /\ p.contact = "false" /\ p \notin LatestOf(d)
    /\ call.ret = <<>>

\* C8: the state of every result is "closed" iff the contact flag of the
\* returned observation is true and "open" otherwise; under OPEN every state
\* is "open", under CLOSED every state is "closed".
C8_StateFromContact ==
    ReadReturned =>
        \A i \in 1..Len(call.ret) :
            /\ call.ret[i][3] = (IF call.rows[i].contact = "true" THEN "closed" ELSE "open")
            /\ call.arg.state_filter = "OPEN" => call.ret[i][3] = "open"
            /\ call.arg.state_filter = "CLOSED" => call.ret[i][3] = "closed"

\* C8 witness: an ALL query returned a closed and an open device together
C8_Witness ==
    /\ ReadReturned /\ call.arg.state_filter = "ALL"
    /\ Len(call.ret) = 2
    /\ call.ret[1][3] = "closed" /\ call.ret[2][3] = "open"

\* C9: no result is built from an observation more than two days older than
\* the call, and a device with only such observations has no result.
C9_RecencyWindow ==
    ReadReturned =>
        /\ \A i \in 1..Len(call.rows) : ~(now - call.rows[i].time > TwoDays)
        /\ \A d \in DeviceIds :
              (\A o \in store : o.device_id = d => now - o.time > TwoDays) => ResultsOf(d) = {}

\* C9 witness: the only observation of a device is a window reading in a
\* requested room, three days old, and the device is absent from the results
C9_Witness ==
    /\ ReadReturned /\ call.arg.state_filter = "ALL"
    /\ \E o \in store :
          /\ now - o.time = TwoDays + 1
          /\ o.device_type = "window_sensor"
          /\ o.room \in RequestedStorageRooms
          /\ \A p \in store : p.device_id = o.device_id => p = o
          /\ ResultsOf(o.device_id) = {}

\* C10: with empty params.rooms no room restriction applies: every device
\* with a window observation inside the recency window is returned under
\* state_filter ALL, whatever its room.
C10_EmptyRoomsNoRestriction ==
    (ReadReturned /\ call.arg.rooms = <<>> /\ call.arg.state_filter = "ALL") =>
        \A o \in store :
            (o.device_type = "window_sensor" /\ now - o.time < TwoDays)
                => ResultsOf(o.device_id) # {}

\* a direct call of get_parameters has returned parameters
ParamsReturned == call.op = "get_parameters" /\ call.status = "returned"

\* the empty string
EmptyString == <<>>

\* C11: a request with no room entity and an empty ambient room gets an empty
\* rooms list (no room restriction), and with no results its answer is
\* exactly "No database entries were found." without a room clause.
C11_EmptyAmbientNoRestriction ==
    (/\ ParamsReturned
     /\ call.arg.room_entities = <<>>
     /\ call.arg.client_request.room = EmptyString) =>
        /\ call.ret.rooms = <<>>
        /\ Render(TemplateName(call.ret.action), call.ret) = << <<"No database entries were found.">> >>

\* a room name with every space replaced by an underscore
SpaceToUnderscore(name) == [k \in DOMAIN name |-> IF name[k] = " " THEN "_" ELSE name[k]]

\* the stored room equals a requested room name with spaces as underscores
RoomRequested(room) ==
    \E j \in 1..Len(call.arg.rooms) : room = SpaceToUnderscore(call.arg.rooms[j])

\* C12: with non-empty params.rooms every returned observation is stored
\* under a requested room name with its spaces replaced by underscores, and
\* (state_filter ALL) every window observation inside the window that is
\* stored under such a room has its device returned.
C12_RoomFilterNormalized ==
    (ReadReturned /\ call.arg.rooms # <<>>) =>
        /\ \A i \in 1..Len(call.rows) : RoomRequested(call.rows[i].room)
        /\ call.arg.state_filter = "ALL" =>
              \A o \in store :
                  (/\ o.device_type = "window_sensor"
                   /\ now - o.time < TwoDays
                   /\ RoomRequested(o.room)) => ResultsOf(o.device_id) # {}

\* C12 witness: "living room" was requested; the reading stored under
\* living_room came back and another device's reading in the bedroom did not
C12_Witness ==
    /\ ReadReturned /\ call.arg.rooms = << LivingRoom >> /\ call.arg.state_filter = "ALL"
    /\ Len(call.rows) = 1
    /\ call.rows[1].room = <<"living", "_", "room">>
    /\ \E o \in store :
          /\ o.room = <<"bedroom">> /\ o.device_type = "window_sensor"
          /\ now - o.time < TwoDays /\ o.device_id # call.rows[1].device_id

\* the answer the template gives for the returned read
AnswerOfRead == Render(TemplateName(call.arg.action), [call.arg EXCEPT !.states = call.ret])

\* the answer line that names device, room and state
LineFor(name, room, state) == <<"The ", name, " in room ">> \o room \o <<" is ", state, ".">>

\* the requested room names under whose storage form observation o is stored
NamesUsedFor(o) ==
    {call.arg.rooms[j] : j \in {k \in 1..Len(call.arg.rooms) :
                                   SpaceToUnderscore(call.arg.rooms[k]) = o.room}}

\* C13 as stated: the answer line of every device found shows the room name
\* exactly as the request gave it, whatever that name is.
C13_RoomRoundTripEveryName ==
    (ReadReturned /\ Len(call.rows) > 0) =>
        \A i \in 1..Len(call.rows) :
            \A u \in NamesUsedFor(call.rows[i]) :
                AnswerOfRead[i] = LineFor(call.ret[i][1], u, call.ret[i][3])

HasUnderscore(name) == \E k \in DOMAIN name : name[k] = "_"

\* C13 amended: the answer line of every device found shows the room name
\* exactly as the request gave it, for every requested name that contains no
\* underscore.
C13_RoomRoundTrip ==
    (ReadReturned /\ Len(call.rows) > 0) =>
        \A i \in 1..Len(call.rows) :
            \A u \in NamesUsedFor(call.rows[i]) :
                ~HasUnderscore(u) =>
                    AnswerOfRead[i] = LineFor(call.ret[i][1], u, call.ret[i][3])

\* C13 witness: "living room" was requested, the reading is stored under
\* living_room and the answer line says "living room"
C13_Witness ==
    /\ ReadReturned /\ call.arg.rooms = << LivingRoom, <<"bedroom">> >>
    /\ Len(call.rows) = 2
    /\ call.rows[1].room = <<"living", "_", "room">>
    /\ AnswerOfRead[1] = <<"The ", "left window", " in room ", "living", " ", "room", " is ", "open", ".">>

\* C14: for a request with one or more room entities the returned rooms are
\* the entities' normalized values in the order given, whatever the ambient
\* room is.
C14_RoomsFromEntities ==
    (ParamsReturned /\ Len(call.arg.room_entities) > 0) =>
        /\ Len(call.ret.rooms) = Len(call.arg.room_entities)
        /\ \A k \in 1..Len(call.arg.room_entities) :
              call.ret.rooms[k] = call.arg.room_entities[k]

\* C14 witness: two room entities, a third room as ambient room
C14_Witness ==
    /\ ParamsReturned
    /\ call.arg.room_entities = << LivingRoom, <<"bedroom">> >>
    /\ call.arg.client_request.room = <<"kitchen">>
    /\ call.ret.rooms[1] = LivingRoom

\* C15: for a request with no room entity the returned rooms are the list
\* holding just the request's ambient room.
C15_RoomsDefaultAmbient ==
    (ParamsReturned /\ Len(call.arg.room_entities) = 0) =>
        /\ Len(call.ret.rooms) = 1
        /\ call.ret.rooms[1] = call.arg.client_request.room

\* C15 witness: no room entity, the request came from the kitchen
C15_Witness ==
    /\ ParamsReturned
    /\ call.arg.room_entities = <<>>
    /\ call.ret.rooms = << <<"kitchen">> >>

\* C16: state_filter is OPEN iff "open" is a lower-cased token of the text,
\* CLOSED iff "closed" is one and "open" is not, and ALL otherwise.
C16_StateFilterFromTokens ==
    ParamsReturned =>
        LET tokens == TokensOf(call.arg.raw_text)
        IN  /\ call.ret.state_filter = "OPEN" <=> <<"open">> \in tokens
            /\ call.ret.state_filter = "CLOSED" <=>
                  (<<"closed">> \in tokens /\ <<"open">> \notin tokens)
            /\ call.ret.state_filter = "ALL" <=>
                  (<<"closed">> \notin tokens /\ <<"open">> \notin tokens)

\* C16 witness: "closed" comes first and "Open" second; the filter is OPEN
C16_Witness ==
    /\ ParamsReturned
    /\ call.arg.raw_text = <<"closed", " ", "Open">>
    /\ call.ret.state_filter = "OPEN"

\* a direct call of get_answer has returned and a template was registered
AnswerComposed ==
    /\ call.op = "get_answer" /\ call.status = "returned"
    /\ call.arg.action \in DOMAIN action_to_template

\* a stored room name as the answer shows it: underscores as spaces
UnderscoreAsSpace(room) == [k \in DOMAIN room |-> IF room[k] = "_" THEN " " ELSE room[k]]

\* C17: for N > 0 results the composed answer has exactly N lines, line i
\* being "The {device_name} in room {room} is {actual_state}." for result i,
\* the room shown with its underscores as spaces.
C17_OneLinePerResult ==
    (AnswerComposed /\ Len(call.arg.states) > 0) =>
        /\ Len(call.ret) = Len(call.arg.states)
        /\ \A i \in 1..Len(call.arg.states) :
              call.ret[i] = LineFor(call.arg.states[i][1],
                                    UnderscoreAsSpace(call.arg.states[i][2]),
                                    call.arg.states[i][3])

\* C17 witness: two results, the closed right window before the open left one
C17_Witness ==
    /\ AnswerComposed
    /\ Len(call.arg.states) = 2 /\ Len(call.ret) = 2
    /\ call.ret[1] = <<"The ", "right window", " in room ", "bedroom", " is ", "closed", ".">>
    /\ call.ret[2] = <<"The ", "left window", " in room ", "living", " ", "room", " is ", "open", ".">>

\* the first k names of rooms, separated by ", "
RECURSIVE CommaJoined(_, _)
CommaJoined(rooms, k) ==
    IF k = 0 THEN <<>>
    ELSE IF k = 1 THEN rooms[1]
    ELSE CommaJoined(rooms, k - 1) \o <<", ">> \o rooms[k]

\* C18: for no results the composed answer is the single line "No database
\* entries were found for {rooms joined by ', '}." when params.rooms is
\* non-empty and exactly "No database entries were found." when it is empty.
C18_NoEntriesSentence ==
    (AnswerComposed /\ Len(call.arg.states) = 0) =>
        IF Len(call.arg.rooms) > 0
        THEN call.ret = << <<"No database entries were found for ">>
                             \o CommaJoined(call.arg.rooms, Len(call.arg.rooms))
                             \o <<".">> >>
        ELSE call.ret = << <<"No database entries were found.">> >>

\* C18 witness: no results for two requested rooms
C18_Witness ==
    /\ AnswerComposed /\ call.arg.states = <<>>
    /\ call.ret = << <<"No database entries were found for ", "living", " ", "room", ", ",
                       "bedroom", ".">> >>


\* no stored observation is of the requested type, inside the window of
\* request r's read and stored under one of its requested rooms
NoObservationMatches(r) ==
    \A o \in store :
        ~(/\ o.device_type = "window_sensor"
          /\ req[r].since - o.time < TwoDays
          /\ \E j \in 1..Len(req[r].params.rooms) :
                 o.room = SpaceToUnderscore(req[r].params.rooms[j]))

\* the answer for no results: the "No database entries" sentence of the
\* registered template, the apology when none is registered
NoEntriesAnswer(params) ==
    IF params.action \notin DOMAIN action_to_template THEN <<Apology>>
    ELSE IF Len(params.rooms) > 0
         THEN << <<"No database entries were found for ">>
                   \o CommaJoined(params.rooms, Len(params.rooms)) \o <<".">> >>
         ELSE << <<"No database entries were found.">> >>

\* C19: when no observation matches at the time the store answers request
\* r's read, the read yields the empty list (the request records no error
\* from it) and that step sends exactly one message for r, the "No database
\* entries were found..." answer, to r's own client request; the only other
\* outcome of the step is a failure of the store itself.
C19_EmptyReadAnswered ==
    [][\A r \in ReqIds :
          (req[r].pc = "await_exec" /\ NoObservationMatches(r) /\ req'[r] # req[r]) =>
              \/ req'[r].pc = "raised" /\ req'[r].error = StoreError
              \/ /\ req'[r].pc = "done"
                 /\ req'[r].error = req[r].error
                 /\ req'[r].params.states = <<>>
                 /\ SentFor(r) = {}
                 /\ outbox' = Append(outbox,
                                     [text |-> NoEntriesAnswer(req[r].params),
                                      client_request |-> req[r].ireq.client_request])]_vars

\* C19 witness: the store holds an observation, the request asked for
\* another room, and its single outbound message is the no-entries sentence
C19_Witness ==
    \E r \in ReqIds :
        /\ req[r].pc = "done" /\ store # {}
        /\ req[r].params.states = <<>>
        /\ Cardinality(SentFor(r)) = 1
        /\ \A i \in SentFor(r) :
               outbox[i].text = << <<"No database entries were found for ", "bedroom", ".">> >>


\* the parameters get_parameters extracts from request r's own intent request
OwnParameters(r) == GetParameters(req[r].ireq).params

\* the result lists a read for request r's own parameters can give, the
\* store having held some part of what it holds now when it answered
OwnReadResults(r) ==
    {ToStates(rows) : rows \in UNION {QueryResults(S, OwnParameters(r), req[r].since) :
                                         S \in SUBSET store}}

\* the answer composed from request r's parameters and read results
OwnAnswer(r) ==
    IF req[r].template = NoTemplate THEN <<Apology>>
    ELSE Render(req[r].template, req[r].params)

\* a completed request holds its own parameters and results of its own
\* read, and its one message carries the answer built from them to its own
\* client request, whatever became of the other requests
C20_OwnAnswerOnly ==
    \A r \in ReqIds :
        req[r].pc = "done" =>
            /\ [req[r].params EXCEPT !.states = <<>>] = OwnParameters(r)
            /\ req[r].params.states \in OwnReadResults(r)
            /\ req[r].response = OwnAnswer(r)
            /\ Cardinality(SentFor(r)) = 1
            /\ \A i \in SentFor(r) :
                   outbox[i] = [text |-> OwnAnswer(r),
                                client_request |-> req[r].ireq.client_request]

\* a step of one request, its failure included, changes nothing of any other
\* request and no message already sent; a failing step sends nothing
C20_StepIsolated ==
    \A r \in ReqIds :
        req'[r].pc # req[r].pc =>
            /\ \A q \in ReqIds \ {r} : req'[q] = req[q]
            /\ \A i \in 1..Len(outbox) : i <= Len(outbox') /\ outbox'[i] = outbox[i]
            /\ \A i \in (Len(outbox) + 1)..Len(outbox') : outbox'[i].client_request.id = r
            /\ req'[r].pc = "raised" => outbox' = outbox

\* C20: with requests interleaved at the store read, each request's answer
\* is built only from its own parameters and its own read results and goes
\* to its own reply address, and an extraction or read failure of one
\* request neither suppresses nor alters the response of another.
C20_ConcurrentRequestsIsolated == []C20_OwnAnswerOnly /\ [][C20_StepIsolated]_vars

\* C20 witness: two requests were in flight together; one failed at the
\* store read, the other, asking for other rooms, has its own answer
C20_Witness ==
    \E r, q \in ReqIds :
        /\ req[r].pc = "raised" /\ req[r].error = StoreError
        /\ req[q].pc = "done" /\ req[q].since = req[r].since
        /\ req[q].params.rooms # req[r].params.rooms
        /\ Len(req[q].params.states) > 0
        /\ Cardinality(SentFor(q)) = 1 /\ SentFor(r) = {}
        /\ \A i \in SentFor(q) : outbox[i].text = OwnAnswer(q)


\* C21: supported_intents always holds QUERY_STATUS with confidence 0.8,
\* QUERY_LIST with 0.7 and SYSTEM_HELP with 0.6 (confidences in tenths).
C21_SupportedIntentsFixed ==
    /\ {"QUERY_STATUS", "QUERY_LIST", "SYSTEM_HELP"} \subseteq DOMAIN supported_intents
    /\ supported_intents["QUERY_STATUS"] = 8
    /\ supported_intents["QUERY_LIST"] = 7
    /\ supported_intents["SYSTEM_HELP"] = 6


\* request r's intent request with its intent type replaced by i
WithIntentType(r, i) == [req[r].ireq EXCEPT !.intent_type = i]

\* C22: whatever the intent type of a request, its extraction result is the
\* one every other intent type would give, the only failures it can record
\* are the missing device type and the failed read, and once extraction and
\* read have succeeded exactly one response is sent, also for no results.
C22_NoIntentBranch ==
    \A r \in ReqIds :
        /\ req[r].pc # "idle" =>
              \A i \in IntentTypes :
                  GetParameters(WithIntentType(r, i)) = GetParameters(req[r].ireq)
        /\ req[r].pc = "raised" =>
              \/ req[r].error = NoDeviceTypeError /\ ~GetParameters(req[r].ireq).ok
              \/ req[r].error = StoreError /\ GetParameters(req[r].ireq).ok
        /\ (req[r].pc = "done") =>
              /\ GetParameters(req[r].ireq).ok
              /\ Cardinality(SentFor(r)) = 1
              /\ \A k \in SentFor(r) : outbox[k].text = req[r].response

\* C22 witness: a SYSTEM_HELP request naming windows was read with no result
\* and has its one response
C22_Witness ==
    \E r \in ReqIds :
        /\ req[r].pc = "done"
        /\ req[r].ireq.intent_type = "SYSTEM_HELP"
        /\ req[r].params.states = <<>>
        /\ Cardinality(SentFor(r)) = 1


\* the requests that share the raw text of the request of the direct call
SameTextRequests ==
    {MkRequest(0, call.arg.raw_text, d, rm, a, i) :
        d \in DeviceEntityLists, rm \in RoomEntityLists, a \in AmbientRooms, i \in IntentTypes}

\* C23: the state_filter get_parameters returns is the one it returns for
\* every request with the same raw text, whatever that request's device and
\* room entities, ambient room and intent type are.
C23_StateFilterFromTextOnly ==
    (call.op = "get_parameters" /\ call.status = "returned") =>
        \A other \in SameTextRequests :
            GetParameters(other).ok =>
                GetParameters(other).params.state_filter = call.ret.state_filter

\* C23 witness: a SYSTEM_HELP request with room entities and no ambient room
\* got the filter CLOSED, as does a QUERY_STATUS request of the same text
\* with other entities and an ambient room
C23_Witness ==
    /\ call.op = "get_parameters" /\ call.status = "returned"
    /\ call.ret.state_filter = "CLOSED"
    /\ call.arg.intent_type = "SYSTEM_HELP"
    /\ call.arg.room_entities # <<>> /\ call.arg.client_request.room = <<>>
    /\ \E other \in SameTextRequests :
           /\ other.intent_type = "QUERY_STATUS" /\ other.room_entities = <<>>
           /\ other.device_entities # call.arg.device_entities
           /\ other.client_request.room # <<>>
           /\ GetParameters(other).ok
           /\ GetParameters(other).params.state_filter = "CLOSED"


\* the request carries device entities and none of them is a known keyword
OnlyUnknownDeviceEntities(ireq) ==
    /\ ireq.device_entities # <<>>
    /\ \A i \in 1..Len(ireq.device_entities) : ireq.device_entities[i] \notin Keywords

\* C24: a request whose device entities are present but all unknown, and
\* whose text has a token that is a known keyword, is not refused:
\* get_parameters returns with device_type WINDOW; and a request with a known
\* device entity gets WINDOW whatever its text is.
C24_TextFallbackAfterEntities ==
    (call.op = "get_parameters" /\ call.status # "pending") =>
        /\ (OnlyUnknownDeviceEntities(call.arg) /\ TokensOf(call.arg.raw_text) \cap Keywords # {}) =>
               call.status = "returned" /\ call.ret.device_type = "WINDOW"
        /\ (\E i \in 1..Len(call.arg.device_entities) : call.arg.device_entities[i] \in Keywords) =>
               call.status = "returned" /\ call.ret.device_type = "WINDOW"

\* C24 witness: the only device entity is "door", the text says "show
\* Windows", and the call returned WINDOW
C24_Witness ==
    /\ call.op = "get_parameters" /\ call.status = "returned"
    /\ call.arg.device_entities = << <<"door">> >>
    /\ call.arg.raw_text = <<"show", " ", "Windows">>
    /\ call.ret.device_type = "WINDOW"


\* C25: the step that ends request r's read changes nothing of r's
\* parameters except states: device_type, rooms (still as the request gave
\* them, not in storage form), state_filter and action are as extracted; a
\* failed read changes nothing of them at all.
C25_ReadOnlyFillsStates ==
    [][\A r \in ReqIds :
          (req[r].pc = "await_exec" /\ req'[r].pc # "await_exec") =>
              /\ req'[r].params = [req[r].params EXCEPT !.states = req'[r].params.states]
              /\ req'[r].params.rooms = ResolveRooms(req[r].ireq)
              /\ req'[r].pc = "raised" => req'[r].params = req[r].params]_vars

\* C25 witness: a request for "living room" was read from the store, where
\* the room is "living_room"; its parameters still say "living room" and
\* its states hold the stored name
C25_Witness ==
    \E r \in ReqIds :
        /\ req[r].pc = "done"
        /\ req[r].params.rooms = << <<"living", " ", "room">> >>
        /\ Len(req[r].params.states) = 1
        /\ req[r].params.states[1][2] = <<"living", "_", "room">>


\* the answers request r can get from the store as it is: composed from r's
\* own extracted parameters and a result of its own read
FreshAnswers(r) ==
    {GetAnswer(action_to_template, [OwnParameters(r) EXCEPT !.states = ToStates(rows)]) :
        rows \in QueryResults(store, OwnParameters(r), req[r].since)}

\* every request issues at most one store read, a completed one exactly one
C26_OneReadPerRequest ==
    \A r \in ReqIds :
        /\ req[r].reads <= 1
        /\ req[r].pc \in {"await_exec", "done"} => req[r].reads = 1

\* a step of a request writes neither the store nor the skill's own state,
\* and the step that answers it sends an answer the store gives at that time
C26_RequestStepStateless ==
    \A r \in ReqIds :
        req'[r].pc # req[r].pc =>
            /\ store' = store
            /\ action_to_template' = action_to_template
            /\ supported_intents' = supported_intents
            /\ req'[r].pc = "done" =>
                   /\ req'[r].response \in FreshAnswers(r)
                   /\ outbox' = Append(outbox, [text |-> req'[r].response,
                                                  client_request |-> req[r].ireq.client_request])

\* C26: process_request issues exactly one store read per request, never
\* writes the store, leaves action_to_template and supported_intents as they
\* were, and the answer it sends is one that the request and the store
\* contents at the time of its read determine, whatever requests came before.
C26_Stateless == []C26_OneReadPerRequest /\ [][C26_RequestStepStateless]_vars

\* C26 witness: two completed requests with the same parameters and the same
\* templates got different answers, the store having changed between them
C26_Witness ==
    \E r, q \in ReqIds :
        /\ req[r].pc = "done" /\ req[q].pc = "done"
        /\ [req[r].params EXCEPT !.states = <<>>] = [req[q].params EXCEPT !.states = <<>>]
        /\ req[r].template = req[q].template
        /\ req[r].params.states = <<>> /\ Len(req[q].params.states) = 1
        /\ req[r].response # req[q].response
        /\ req[r].reads = 1 /\ req[q].reads = 1


\* device d has an eligible observation and its latest ones lack the contact field
LatestLacksContact(d) == LatestOf(d) # {} /\ \A o \in LatestOf(d) : o.contact = "absent"

\* C27: a device whose selected observation has no contact field is returned
\* with state "open" under state_filter ALL and is not returned under OPEN
\* or CLOSED, where no result comes from an observation without contact.
C27_MissingContact ==
    ReadReturned =>
        /\ \A i \in 1..Len(call.rows) :
               call.rows[i].contact = "absent" =>
                   call.arg.state_filter = "ALL" /\ call.ret[i][3] = "open"
        /\ \A d \in DeviceIds :
               LatestLacksContact(d) =>
                   IF call.arg.state_filter = "ALL"
                   THEN \E i \in ResultsOf(d) : call.ret[i][3] = "open"
                   ELSE ResultsOf(d) = {}

\* C27 witness: an ALL query reported one device as "open" from an
\* observation without contact, and the OPEN query on the same store and
\* rooms returns nothing, unlike the "open" entries of the ALL result
C27_Witness ==
    /\ ReadReturned /\ call.arg.state_filter = "ALL"
    /\ Len(call.ret) = 1 /\ call.ret[1][3] = "open"
    /\ call.rows[1].contact = "absent"
    /\ QueryResults(store, [call.arg EXCEPT !.state_filter = "OPEN"], now) = {<<>>}


\* before skill_preparations ran no template is registered
C28_NoTemplateBeforeStartup == ~prepared => action_to_template = <<>>

\* the template map changes only in the step that completes
\* skill_preparations, and a request answered while the map is empty gets
\* the apology string as its one message
C28_StepKeepsTemplates ==
    /\ prepared => (prepared' /\ action_to_template' = action_to_template)
    /\ action_to_template' # action_to_template => (~prepared /\ prepared')
    /\ \A r \in ReqIds :
           (req[r].pc = "await_exec" /\ req'[r].pc = "done" /\ action_to_template = <<>>) =>
               /\ req'[r].response = <<Apology>>
               /\ outbox' = Append(outbox, [text |-> <<Apology>>,
                                              client_request |-> req[r].ireq.client_request])

Bare(text, k) ==
    /\ (k = 1 \/ text[k - 1] = " ")
    /\ (k = Len(text) \/ text[k + 1] = " ")

\* every occurrence of one of the words in the text, in any case, has
\* something attached to it
OnlyAttached(text, words) ==
    \A k \in 1..Len(text) : LowerAtom(text[k]) \in words => ~Bare(text, k)

\* C29: a keyword with punctuation attached is no match: a request without
\* a known device entity whose text mentions window(s) only with something
\* attached fails with the no-device-type error, and a returned request
\* whose text has "open"/"closed" only with something attached has
\* state_filter ALL.
C29_NoPunctuationStripping ==
    (call.op = "get_parameters" /\ call.status # "pending") =>
        /\ (/\ \A i \in 1..Len(call.arg.device_entities) :
                  call.arg.device_entities[i] \notin Keywords
            /\ OnlyAttached(call.arg.raw_text, {"window", "windows"})) =>
               call.status = "raised" /\ call.ret = NoDeviceTypeError
        /\ (call.status = "returned" /\ OnlyAttached(call.arg.raw_text, {"open", "closed"})) =>
               call.ret.state_filter = "ALL"

\* C29 witness: the text is "Open? " and the call, with a windows entity,
\* returned state_filter ALL
C29_Witness ==
    /\ call.op = "get_parameters" /\ call.status = "returned"
    /\ call.arg.raw_text = <<"Open", "?", " ">>
    /\ call.ret.state_filter = "ALL"


\* device d has an eligible observation, and a newer observation of the
\* requested type inside the window that is stored under a room not asked for
NewestElsewhere(d) ==
    \E o \in EligibleObs : \E p \in store :
        /\ o.device_id = d /\ p.device_id = d
        /\ p.device_type = "window_sensor" /\ now - p.time < TwoDays
        /\ p.room \notin RequestedStorageRooms
        /\ p.time > o.time

\* C30: under state_filter ALL a device whose newest observation in the
\* window is stored under a room that was not asked for, but which has an
\* older one in the window under a requested room, is returned once, from
\* its latest observation under the requested rooms: with that room and the
\* state of that observation.
C30_LatestAmongRoomFiltered ==
    (ReadReturned /\ call.arg.state_filter = "ALL") =>
        \A d \in DeviceIds :
            NewestElsewhere(d) =>
                /\ Cardinality(ResultsOf(d)) = 1
                /\ \A i \in ResultsOf(d) :
                       /\ call.rows[i] \in LatestOf(d)
                       /\ call.ret[i][2] = call.rows[i].room
                       /\ call.ret[i][2] \in RequestedStorageRooms
                       /\ call.ret[i][3] =
                              (IF call.rows[i].contact = "true" THEN "closed" ELSE "open")

\* C30 witness: sensor_1 was last seen open in the bedroom and before that
\* closed in the living room; asked for the living room, the read reports
\* it there as closed
C30_Witness ==
    /\ ReadReturned /\ call.arg.state_filter = "ALL"
    /\ call.arg.rooms = << <<"living", " ", "room">> >>
    /\ \E o, p \in store :
           /\ o.device_id = "sensor_1" /\ p.device_id = "sensor_1"
           /\ o.room = <<"living", "_", "room">> /\ o.contact = "true"
           /\ p.room = <<"bedroom">> /\ p.contact = "false"
           /\ p.time = now /\ o.time = now - 1
    /\ call.ret = << <<"left window", <<"living", "_", "room">>, "closed">> >>

====
